---- MODULE Spec2Model ----
(***************************************************************************)
(* A model of the MidiRouter of midi-request-trigger (midi_router.go,      *)
(* main.go, http.go): the dispatch of MIDI events to MQTT/HTTP actions     *)
(* (sendRequest), the dispatch of HTTP requests to MIDI events (Handler),  *)
(* and the acquisition tasks that bind the router's live handles           *)
(* (Connect).                                                              *)
(*                                                                         *)
(* Strings of the program are sequences of tokens (<<>> is the empty       *)
(* string, \o is concatenation): every token stands for a fixed run of     *)
(* characters, so equality and prefix of the token sequences are equality  *)
(* and prefix of the strings.                                              *)
(***************************************************************************)
EXTENDS Integers, Sequences, FiniteSets, TLC

\* ------------------------------------------------------------------ bounds

\* Longest NoteTriggers list of a configuration.
MaxNoteTriggers == 2

\* Longest RequestTriggers list of a configuration.
MaxRequestTriggers == 2

\* ----------------------------------------------------------------- strings

EmptyStr == <<>>

\* r.MQTT.Topic of the modelled router ("midi/example").
BaseTopic == <<"midi/example">>

\* r.MQTT.Topic + "/cmd"
CmdTopic == BaseTopic \o <<"/", "cmd">>

\* A topic of some other service ("osc/behringer_wing/send/...").
OtherTopic == <<"osc/val">>

\* LogLevel values (iota order of the const block).
InfoLog == 0
ErrorLog == 1
ReceiveLog == 2
SendLog == 3
DebugLog == 4

\* trigger URLs: one url.Parse accepts, one it rejects (a bad % escape).
GoodURL == <<"http://x/y">>
MalformedURL == <<"http://x/", "%zz">>

\* url.Parse(trig.URL) fails on an invalid percent escape.
UrlParses(u) == \A k \in 1..Len(u) : u[k] # "%zz"

\* net/http validMethod: a method is a non-empty token (no spaces).
ValidMethods == {"GET", "POST"}

\* ------------------------------------------------------------ configuration

\* The match-all flags in every combination, with the exact values 0/60/90.
NoMqtt == [MqttTopic |-> EmptyStr, MqttPayload |-> "nil"]
NoHttp == [URL |-> EmptyStr, Method |-> "", MidiInfoInRequest |-> FALSE]
NoDelay == [DelayBefore |-> 0, DelayAfter |-> 0]

Matcher(c, mc, n, mn, v, mv) ==
    [Channel |-> c, MatchAllChannels |-> mc, Note |-> n, MatchAllNotes |-> mn,
     Velocity |-> v, MatchAllVelocities |-> mv]

\* Records are merged field by field: the NoteTrigger struct.
NoteTrigger(m, q, h, d) ==
    [Channel |-> m.Channel, MatchAllChannels |-> m.MatchAllChannels,
     Note |-> m.Note, MatchAllNotes |-> m.MatchAllNotes,
     Velocity |-> m.Velocity, MatchAllVelocities |-> m.MatchAllVelocities,
     DelayBefore |-> d.DelayBefore, DelayAfter |-> d.DelayAfter,
     MqttTopic |-> q.MqttTopic, MqttPayload |-> q.MqttPayload,
     MidiInfoInRequest |-> h.MidiInfoInRequest, URL |-> h.URL, Method |-> h.Method]

\* The NoteTriggers a configuration is drawn from: every combination of the
\* three match-all flags, and every shape of action (inert, MQTT only with the
\* default or a literal or an unencodable payload, HTTP with a good or a
\* malformed URL, a default, a valid and an invalid method, a topic that is the
\* firehose topic itself, delays).
NoteTriggerPool ==
    { NoteTrigger(Matcher(0, FALSE, 60, FALSE, 90, FALSE), NoMqtt, NoHttp, NoDelay),
      NoteTrigger(Matcher(0, FALSE, 60, FALSE, 90, TRUE), NoMqtt,
                  [URL |-> GoodURL, Method |-> "", MidiInfoInRequest |-> FALSE], NoDelay),
      NoteTrigger(Matcher(0, FALSE, 60, TRUE, 90, TRUE),
                  [MqttTopic |-> OtherTopic, MqttPayload |-> "nil"], NoHttp, NoDelay),
      NoteTrigger(Matcher(0, TRUE, 60, FALSE, 90, TRUE),
                  [MqttTopic |-> OtherTopic, MqttPayload |-> "literal"],
                  [URL |-> MalformedURL, Method |-> "", MidiInfoInRequest |-> FALSE],
                  [DelayBefore |-> 0, DelayAfter |-> 200]),
      NoteTrigger(Matcher(0, FALSE, 60, TRUE, 90, FALSE),
                  [MqttTopic |-> OtherTopic, MqttPayload |-> "unencodable"],
                  [URL |-> GoodURL, Method |-> "BAD METHOD", MidiInfoInRequest |-> FALSE],
                  NoDelay),
      NoteTrigger(Matcher(0, TRUE, 60, TRUE, 90, TRUE),
                  [MqttTopic |-> CmdTopic, MqttPayload |-> "nil"], NoHttp, NoDelay),
      NoteTrigger(Matcher(0, TRUE, 60, FALSE, 90, FALSE),
                  [MqttTopic |-> OtherTopic, MqttPayload |-> "nil"],
                  [URL |-> GoodURL, Method |-> "POST", MidiInfoInRequest |-> TRUE],
                  [DelayBefore |-> 200, DelayAfter |-> 200]),
      NoteTrigger(Matcher(1, TRUE, 60, TRUE, 90, FALSE), NoMqtt,
                  [URL |-> GoodURL, Method |-> "", MidiInfoInRequest |-> TRUE],
                  [DelayBefore |-> 200, DelayAfter |-> 0]) }

\* Sequences over S of length at most n.
SeqUpTo(S, n) == UNION { [1..k -> S] : k \in 0..n }

\* The MIDI events the listener delivers: GetNoteStart gives a velocity > 0,
\* GetNoteEnd is passed on with velocity 0.
Channels == {0, 1}
Notes == {60, 61}
Velocities == {0, 90}

\* The messages the input port delivers to the listener callback.
MidiMessages ==
    [type : {"NoteOn", "NoteOff"}, channel : Channels, note : Notes,
     velocity : Velocities]

\* Device: the pattern of the router, a regular expression. "WING" compiles
\* and matches every port whose name contains it; "WING(" does not compile.
ValidDevice == <<"WING">>
InvalidDevice == <<"WING", "(">>
PortNames == {"WING Port 4", "WING Port 5", "IAC Driver"}
MatchingPorts == {"WING Port 4", "WING Port 5"}

\* What midi.GetOutPorts() / midi.GetInPorts() may enumerate.
PortLists ==
    { <<>>, <<"IAC Driver">>, <<"IAC Driver", "WING Port 4">>,
      <<"WING Port 4", "WING Port 5">> }

\* ------------------------------------------------------------------- state

VARIABLES
    \* the configuration (fig-loaded fields of MidiRouter)
    Device, NoteTriggers, RequestTriggers, MQTT, DisableListener, LogLevel,
    \* the live handles of MidiRouter
    MidiOut, ListenerStop, MqttClient,
    \* the process: running or exited (log.Fatalf, a panic outside net/http)
    alive,
    \* main's position and the goroutines started by Connect
    mainPc, outTask, inTask, mqttTask,
    \* the ports the output task has opened, whether the input listener is
    \* registered with the driver, the connection status inside the paho client,
    \* the topics the client is subscribed to
    outOpened, listening, mqttConn, subs,
    \* the running sendRequest call, and what it has done for its event
    sr, log,
    \* the running Handler call, the status line of its response, and the MIDI
    \* messages it has sent
    hd, resp, sent,
    \* the running MqttOnEvent call, the MIDI messages it has sent, and the
    \* messages it has published
    mq, msent, pubs,
    \* the driver's output ports: from now on every enumeration has a port that
    \* the pattern matches and that opens
    outPortsSettled,
    \* the HTTP server: "off", "serving", "closing" (Shutdown has closed the
    \* listener and waits for the handlers), "closed"
    srv,
    \* the calls of Disconnect(), and the calls it made of the listener's stop
    \* function and of the client's Disconnect
    dc,
    \* the output-port goroutine has slept after a failed round
    outRetried

cfgVars == <<Device, NoteTriggers, RequestTriggers, MQTT, DisableListener, LogLevel>>
handleVars == <<MidiOut, ListenerStop, MqttClient>>
taskVars == <<mainPc, outTask, inTask, mqttTask>>
envVars == <<outOpened, listening, mqttConn, subs>>
noteVars == <<sr, log>>
httpVars == <<hd, resp, sent>>
mqttVars == <<mq, msent, pubs>>
vars == <<Device, NoteTriggers, RequestTriggers, MQTT, DisableListener, LogLevel,
          MidiOut, ListenerStop, MqttClient, alive, mainPc, outTask, inTask,
          mqttTask, outOpened, listening, mqttConn, subs, sr, log, hd, resp, sent,
          mq, msent, pubs, outPortsSettled, srv, dc, outRetried>>

\* ------------------------------------------------------------- sendRequest

NoPayload == [kind |-> "none", channel |-> 0, note |-> 0, velocity |-> 0]
LiteralPayload == [kind |-> "literal", channel |-> 0, note |-> 0, velocity |-> 0]

\* json.Marshal(MQTTPayload{channel, note, velocity}): three uint8 fields, it
\* cannot fail.
MQTTPayload(channel, note, velocity) ==
    [kind |-> "midi", channel |-> channel, note |-> note, velocity |-> velocity]

\* What sendRequest does is recorded in log, in the order it does it.
SleepEntry(i, phase, d) ==
    [kind |-> "sleep", trig |-> i, target |-> EmptyStr, method |-> phase,
     payload |-> NoPayload, dur |-> d, ok |-> TRUE]

\* A call of r.MqttClient.Publish on a client that keeps the message of a
\* Publish made before the connect and sends it afterwards.
PublishEntryQueued(i, topic, payload, conn) ==
    [kind |-> "publish", trig |-> i, target |-> topic, method |-> "",
     payload |-> payload, dur |-> 0, ok |-> TRUE]

\* A call of r.MqttClient.Publish. paho's Publish sends nothing and returns a
\* token holding ErrNotConnected unless the client is connected: ok says
\* whether a message went out.
PublishEntry(i, topic, payload, conn) ==
    [kind |-> "publish", trig |-> i, target |-> topic, method |-> "",
     payload |-> payload, dur |-> 0, ok |-> (conn = "connected")]

\* A call of client.Do(req): ok says whether the transport gave a response.
HttpEntry(i, method, url, query, ok) ==
    [kind |-> "http", trig |-> i, target |-> url, method |-> method,
     payload |-> query, dur |-> 0, ok |-> ok]

\* Matches as the router matched before the match-all-channels flag: a
\* match_all_notes trigger fires on every channel.
MatchesAnyChannel(trig, channel, note, velocity) ==
    \/ trig.MatchAllNotes
    \/ /\ trig.Channel = channel
       /\ trig.Note = note
       /\ (trig.Velocity = velocity \/ trig.MatchAllVelocities)

\* part_001:541, the condition of the loop body.
Matches(trig, channel, note, velocity) ==
    /\ (trig.Channel = channel \/ trig.MatchAllChannels)
    /\ (trig.Note = note \/ trig.MatchAllNotes)
    /\ (trig.Velocity = velocity \/ trig.MatchAllVelocities)

\* Firehose without the test of disable_midi_firehose.
FirehoseIgnoringDisable(client, conn, mqtt, channel, note, velocity) ==
    IF client # "nil"
    THEN <<PublishEntry(0, CmdTopic, MQTTPayload(channel, note, velocity), conn)>>
    ELSE <<>>

\* part_001:520-534, the firehose.
Firehose(client, conn, mqtt, channel, note, velocity) ==
    IF client # "nil" /\ ~mqtt.DisableMidiFirehose
    THEN <<PublishEntry(0, CmdTopic, MQTTPayload(channel, note, velocity), conn)>>
    ELSE <<>>

\* MqttAction without the test of the trigger's topic.
MqttActionAnyTopic(trig, i, client, conn, channel, note, velocity) ==
    IF client # "nil"
    THEN <<PublishEntry(i, trig.MqttTopic, MQTTPayload(channel, note, velocity), conn)>>
    ELSE <<>>

\* part_001:548-574, the MQTT action of trigger i.
MqttAction(trig, i, client, conn, channel, note, velocity) ==
    IF trig.MqttTopic # EmptyStr /\ client # "nil"
    THEN IF trig.MqttPayload # "nil"
         THEN IF trig.MqttPayload = "unencodable"
              THEN <<>>
              ELSE <<PublishEntry(i, trig.MqttTopic, LiteralPayload, conn)>>
         ELSE <<PublishEntry(i, trig.MqttTopic,
                             MQTTPayload(channel, note, velocity), conn)>>
    ELSE <<>>

\* RequestMethod without the default.
RequestMethodVerbatim(trig) == trig.Method

\* part_001:579-581: the method of the request; the trigger is the loop's copy.
RequestMethod(trig) == IF trig.Method = "" THEN "GET" ELSE trig.Method

\* What the transport may do with one request.
HttpOutcomes == {"ok", "transportErr", "readErr"}

\* part_001:576-644, the HTTP action of trigger i: what it did, and whether
\* one of its `continue`s was taken.
HttpAction(trig, i, channel, note, velocity, outcome, level) ==
    LET query == IF trig.MidiInfoInRequest
                 THEN MQTTPayload(channel, note, velocity) ELSE NoPayload
        method == RequestMethod(trig)
    IN  IF trig.URL = EmptyStr THEN [did |-> <<>>, abandoned |-> FALSE]
        ELSE IF ~UrlParses(trig.URL) THEN [did |-> <<>>, abandoned |-> TRUE]
        ELSE IF method \notin ValidMethods THEN [did |-> <<>>, abandoned |-> TRUE]
        ELSE IF outcome = "transportErr"
             THEN [did |-> <<HttpEntry(i, method, trig.URL, query, FALSE)>>,
                   abandoned |-> TRUE]
        ELSE IF level >= DebugLog /\ outcome = "readErr"
             THEN [did |-> <<HttpEntry(i, method, trig.URL, query, TRUE)>>,
                   abandoned |-> TRUE]
        ELSE [did |-> <<HttpEntry(i, method, trig.URL, query, TRUE)>>,
              abandoned |-> FALSE]

\* TriggerActions with the HTTP request made before the MQTT publish.
TriggerActionsHttpFirst(trig, i, client, conn, channel, note, velocity, outcome, level) ==
    LET h == HttpAction(trig, i, channel, note, velocity, outcome, level)
    IN  [did |-> <<SleepEntry(i, "before", trig.DelayBefore)>>
                 \o h.did
                 \o MqttAction(trig, i, client, conn, channel, note, velocity)
                 \o (IF h.abandoned THEN <<>>
                     ELSE <<SleepEntry(i, "after", trig.DelayAfter)>>),
         abandoned |-> h.abandoned]

\* part_001:545-648, the body of the loop for a matching trigger i: what it
\* did, and whether it was left by a `continue`.
TriggerActions(trig, i, client, conn, channel, note, velocity, outcome, level) ==
    LET h == HttpAction(trig, i, channel, note, velocity, outcome, level)
    IN  [did |-> <<SleepEntry(i, "before", trig.DelayBefore)>>
                 \o MqttAction(trig, i, client, conn, channel, note, velocity)
                 \o h.did
                 \o (IF h.abandoned THEN <<>>
                     ELSE <<SleepEntry(i, "after", trig.DelayAfter)>>),
         abandoned |-> h.abandoned]

\* NextTrigger with `return` in place of `continue`.
NextTriggerReturning(i, n, abandoned) == IF abandoned THEN n + 1 ELSE i + 1

\* part_001:537, `for _, trig := range r.NoteTriggers`: the trigger after
\* trigger i of n, whether its body ran to its end or was left by a `continue`
\* (part_001:588, 613, 629, 640).
NextTrigger(i, n, abandoned) == i + 1

Idle == [pc |-> "idle", channel |-> 0, note |-> 0, velocity |-> 0, i |-> 0]

\* part_001:891-908, the listener callback, and the head of sendRequest
\* (part_001:518-534). The driver calls the callback for one message at a time.
ListenerCallback ==
    /\ alive /\ listening
    /\ sr.pc \in {"idle", "done"}
    /\ \E msg \in MidiMessages :
         LET velocity == IF msg.type = "NoteOn" THEN msg.velocity ELSE 0
         IN  /\ sr' = [pc |-> "loop", channel |-> msg.channel, note |-> msg.note,
                       velocity |-> velocity, i |-> 1]
             /\ log' = Firehose(MqttClient, mqttConn, MQTT, msg.channel, msg.note,
                                velocity)
    /\ UNCHANGED <<cfgVars, handleVars, alive, taskVars, envVars, httpVars,
                   mqttVars, outPortsSettled, srv, dc, outRetried>>

\* One iteration of the loop of sendRequest in which a failed HTTP action
\* ends the call and the listener with it.
SendRequestIterPropagating ==
    /\ alive
    /\ sr.pc = "loop" /\ sr.i <= Len(NoteTriggers)
    /\ LET trig == NoteTriggers[sr.i]
           n == Len(NoteTriggers)
       IN  IF Matches(trig, sr.channel, sr.note, sr.velocity)
           THEN \E outcome \in HttpOutcomes :
                  LET a == TriggerActions(trig, sr.i, MqttClient, mqttConn,
                                          sr.channel, sr.note, sr.velocity,
                                          outcome, LogLevel)
                  IN  /\ log' = log \o a.did
                      /\ sr' = IF a.abandoned THEN [sr EXCEPT !.pc = "done"]
                               ELSE [sr EXCEPT !.i = NextTrigger(sr.i, n, FALSE)]
                      /\ listening' = IF a.abandoned THEN FALSE ELSE listening
           ELSE /\ log' = log
                /\ sr' = [sr EXCEPT !.i = NextTrigger(sr.i, n, FALSE)]
                /\ UNCHANGED listening
    /\ UNCHANGED <<cfgVars, handleVars, alive, taskVars, outOpened, mqttConn, subs,
                   httpVars, mqttVars, outPortsSettled, srv, dc, outRetried>>

\* r.NoteTriggers after the iteration for trigger i, had the loop variable
\* been a reference to the element: the default method is stored.
NoteTriggersAliased(triggers, i) ==
    IF triggers[i].URL # EmptyStr
    THEN [triggers EXCEPT ![i].Method = RequestMethod(triggers[i])]
    ELSE triggers

\* part_001:537 and 579-581: r.NoteTriggers after the iteration for trigger
\* i. `for _, trig := range r.NoteTriggers` copies the element, and the
\* assignment trig.Method = "GET" goes to the copy.
NoteTriggersAfter(triggers, i) == triggers

\* part_001:537-649, one iteration of the loop of sendRequest.
SendRequestIter ==
    /\ alive
    /\ sr.pc = "loop" /\ sr.i <= Len(NoteTriggers)
    /\ LET trig == NoteTriggers[sr.i]
           n == Len(NoteTriggers)
       IN  IF Matches(trig, sr.channel, sr.note, sr.velocity)
           THEN \E outcome \in HttpOutcomes :
                  LET a == TriggerActions(trig, sr.i, MqttClient, mqttConn,
                                          sr.channel, sr.note, sr.velocity,
                                          outcome, LogLevel)
                  IN  /\ log' = log \o a.did
                      /\ sr' = [sr EXCEPT !.i = NextTrigger(sr.i, n, a.abandoned)]
                      /\ NoteTriggers' = NoteTriggersAfter(NoteTriggers, sr.i)
           ELSE /\ log' = log
                /\ sr' = [sr EXCEPT !.i = NextTrigger(sr.i, n, FALSE)]
                /\ UNCHANGED NoteTriggers
    /\ UNCHANGED <<Device, RequestTriggers, MQTT, DisableListener, LogLevel,
                   handleVars, alive, taskVars, envVars, httpVars,
                   mqttVars, outPortsSettled, srv, dc, outRetried>>

\* part_001:649-650, the loop is over and sendRequest returns.
SendRequestReturn ==
    /\ alive
    /\ sr.pc = "loop" /\ sr.i > Len(NoteTriggers)
    /\ sr' = [sr EXCEPT !.pc = "done"]
    /\ UNCHANGED <<cfgVars, handleVars, alive, taskVars, envVars, log, httpVars,
                   mqttVars, outPortsSettled, srv, dc, outRetried>>

\* ------------------------------------------------------------------ Handler

\* Request paths are made of these tokens: "/" and "send_note" are written
\* as they are in a URL; "send|note" holds a character that net/url escapes,
\* "send%7Cnote" is its escaped form; "%73end_note" is "send_note" with an
\* escape it does not need.
UnescapeToken(c) ==
    CASE c = "send%7Cnote" -> "send|note"
      [] c = "%73end_note" -> "send_note"
      [] OTHER -> c

EscapeToken(c) == IF c = "send|note" THEN "send%7Cnote" ELSE c

\* net/url unescape(p, encodePath) and escape(path, encodePath).
Unescape(p) == [k \in 1..Len(p) |-> UnescapeToken(p[k])]
Escape(path) == [k \in 1..Len(path) |-> EscapeToken(path[k])]

\* net/url (*URL).setPath, as http.ReadRequest applies it to the request
\* target: RawPath is set only when the target is not the default encoding of
\* the path.
SetPath(p) ==
    [Path |-> Unescape(p),
     RawPath |-> IF Escape(Unescape(p)) = p THEN EmptyStr ELSE p]

\* The request targets clients send.
RequestTargets ==
    { <<"/", "send_note">>, <<"/", "%73end_note">>,
      <<"/", "send|note">>, <<"/", "send%7Cnote">> }

\* The RequestTrigger struct.
RequestTrigger(c, n, v, info, uri, topic, sub, disallow) ==
    [Channel |-> c, Note |-> n, Velocity |-> v, MidiInfoInRequest |-> info,
     MqttTopic |-> topic, MqttSubTopic |-> sub, DisallowPayload |-> disallow,
     URI |-> uri]

\* The RequestTriggers an HTTP configuration is drawn from: the README's uri,
\* a uri with a character that is escaped, with and without midi_info_in_request,
\* a default velocity of 0, and a trigger that has no uri (an MQTT trigger).
HttpRequestTriggerPool ==
    { RequestTrigger(1, 60, 100, TRUE, <<"/", "send_note">>, EmptyStr, EmptyStr, FALSE),
      RequestTrigger(2, 61, 100, TRUE, <<"/", "send|note">>, EmptyStr, EmptyStr, FALSE),
      RequestTrigger(3, 62, 0, FALSE, <<"/", "send|note">>, EmptyStr, EmptyStr, FALSE),
      RequestTrigger(4, 63, 100, FALSE, EmptyStr, EmptyStr, <<"play">>, FALSE) }

\* Values of a query parameter, as strings of characters; <<>> is what
\* query.Get returns for a parameter that is absent.
Absent == <<>>
Digits == {"0", "1", "2", "3", "4", "5", "6", "7", "8", "9"}
DigitValue(d) ==
    CASE d = "0" -> 0 [] d = "1" -> 1 [] d = "2" -> 2 [] d = "3" -> 3
      [] d = "4" -> 4 [] d = "5" -> 5 [] d = "6" -> 6 [] d = "7" -> 7
      [] d = "8" -> 8 [] OTHER -> 9

\* Twenty nines: more than an int holds.
TooLong == [k \in 1..20 |-> "9"]

ChannelValues == {Absent, <<"5">>, <<"2", "5", "5">>, <<"2", "5", "6">>, TooLong}
NoteValues == {Absent, <<"a", "b", "c">>, <<"2", "5", "4">>, <<"2", "5", "5">>,
               <<"3", "0", "0">>}
VelocityValues == {Absent, <<"0">>, <<"1", "2", "7">>, <<"1", "2", "8">>,
                   <<"2", "0", "0">>}

\* The queries of the modelled requests: every value of each parameter alone,
\* and the parameters together.
Queries ==
    [channel : ChannelValues, note : {Absent}, velocity : {Absent}]
    \cup [channel : {Absent}, note : NoteValues, velocity : {Absent}]
    \cup [channel : {Absent}, note : {Absent}, velocity : VelocityValues]
    \cup [channel : {<<"5">>, <<"2", "5", "6">>}, note : {<<"2", "5", "4">>, <<"a", "b", "c">>},
          velocity : {<<"0">>, <<"2", "0", "0">>}]

\* part_001:664, numRx = `^[0-9]+$`.
NumRx(s) == Len(s) > 0 /\ \A k \in 1..Len(s) : s[k] \in Digits

\* math.MaxInt of a 32-bit build (2^31 - 1; 2^63 - 1 on a 64-bit build): what
\* strconv.Atoi gives, with a range error, for a number no int holds. Only
\* that it is above 255 matters here.
MaxInt == (2 ^ 30 - 1) * 2 + 1

RECURSIVE DigitsValue(_, _)
DigitsValue(s, k) == IF k = 0 THEN 0 ELSE 10 * DigitsValue(s, k - 1) + DigitValue(s[k])

\* strconv.Atoi on a string numRx matched: the value and no error, or the
\* largest int and a range error. The modelled strings have at most three
\* digits or twenty: those in between are not computed.
Atoi(s) ==
    IF Len(s) >= 20 THEN [i |-> MaxInt, err |-> TRUE]
    ELSE [i |-> DigitsValue(s, Len(s)), err |-> FALSE]

\* Override that converts every number Atoi parsed, in range or not.
OverrideUnchecked(default, s, max) ==
    IF NumRx(s) /\ ~Atoi(s).err THEN Atoi(s).i % 256 ELSE default

\* part_001:667-673 (channel, i <= 255), 675-681 (note, i < 255), 683-689
\* (velocity, i < 128): the value of a field of the event, from its default and
\* its query parameter. max is the largest i the condition lets through.
Override(default, s, max) ==
    IF NumRx(s)
    THEN LET r == Atoi(s)
         IN  IF r.err /\ r.i <= max /\ r.i >= 0 THEN r.i % 256 ELSE default
    ELSE default

\* part_001:659-690, the channel, note and velocity of the event of trigger t.
EventOf(t, query) ==
    IF t.MidiInfoInRequest
    THEN [channel |-> Override(t.Channel, query.channel, 255),
          note |-> Override(t.Note, query.note, 254),
          velocity |-> Override(t.Velocity, query.velocity, 127)]
    ELSE [channel |-> t.Channel, note |-> t.Note, velocity |-> t.Velocity]

\* part_001:700-704, 773-776 and 805-808, the message made for an event.
MidiMessageNoteOn(i, e) ==
    [type |-> "NoteOn", trig |-> i,
     channel |-> e.channel, note |-> e.note, velocity |-> e.velocity]

MidiMessage(i, e) ==
    [type |-> IF e.velocity = 0 THEN "NoteOff" ELSE "NoteOn", trig |-> i,
     channel |-> e.channel, note |-> e.note, velocity |-> e.velocity]

\* http.ResponseWriter: the first WriteHeader sets the status line, a later
\* one is ignored (http.Error calls WriteHeader). status 0: no header yet.
NoResponse == [status |-> 0, calls |-> 0]
WriteHeader(r, code) ==
    [status |-> IF r.status = 0 THEN code ELSE r.status, calls |-> r.calls + 1]

NoQuery == [channel |-> Absent, note |-> Absent, velocity |-> Absent]
NoRequest == [pc |-> "idle", Path |-> EmptyStr, RawPath |-> EmptyStr,
              query |-> NoQuery, i |-> 0]

\* part_001:57-59 and gorilla/mux: the route of trig.URI matches the path of
\* the request (URL.Path).
Routed(path) ==
    \E k \in 1..Len(RequestTriggers) : RequestTriggers[k].URI = path

\* The test of a trigger against the request without `t.URI != ""`.
UriMatchesUnguarded(t, rawPath) == t.URI = rawPath

\* part_001:657, the test of a trigger against the request.
UriMatches(t, rawPath) == t.URI # EmptyStr /\ t.URI = rawPath

\* part_000:78, the server takes a request in and the router's Handler is
\* called with it. One request is handled at a time.
HttpRequest ==
    /\ alive /\ srv = "serving"
    /\ hd.pc # "loop"
    /\ \E target \in RequestTargets, query \in Queries :
         LET u == SetPath(target)
         IN  /\ Routed(u.Path)
             /\ hd' = [pc |-> "loop", Path |-> u.Path, RawPath |-> u.RawPath,
                       query |-> query, i |-> 1]
    /\ resp' = NoResponse
    /\ sent' = <<>>
    /\ UNCHANGED <<cfgVars, handleVars, alive, taskVars, envVars, noteVars,
                   mqttVars, outPortsSettled, srv, dc, outRetried>>

\* part_001:655-717, one iteration of the loop of Handler. midi.SendTo calls
\* IsOpen on the port: with no port (a nil interface) that panics, and
\* net/http recovers the panic of a handler and drops the connection. With a
\* port, SendTo or the send itself may fail.
HandlerIter ==
    /\ alive
    /\ hd.pc = "loop" /\ hd.i <= Len(RequestTriggers)
    /\ LET t == RequestTriggers[hd.i]
       IN  IF UriMatches(t, hd.RawPath)
           THEN IF MidiOut = "nil"
                THEN /\ hd' = [hd EXCEPT !.pc = "panicked"]
                     /\ UNCHANGED <<resp, sent>>
                ELSE \E sendToOk \in BOOLEAN, sendOk \in BOOLEAN :
                       IF sendToOk /\ sendOk
                       THEN /\ sent' = Append(sent, MidiMessage(hd.i, EventOf(t, hd.query)))
                            /\ resp' = WriteHeader(resp, 204)
                            /\ hd' = [hd EXCEPT !.i = hd.i + 1]
                       ELSE /\ resp' = WriteHeader(resp, 500)
                            /\ hd' = [hd EXCEPT !.pc = "failed"]
                            /\ UNCHANGED sent
           ELSE /\ hd' = [hd EXCEPT !.i = hd.i + 1]
                /\ UNCHANGED <<resp, sent>>
    /\ UNCHANGED <<cfgVars, handleVars, alive, taskVars, envVars, noteVars,
                   mqttVars, outPortsSettled, srv, dc, outRetried>>

\* part_001:717-718, the loop is over and Handler returns; net/http writes
\* the header with status 200 when the handler wrote none.
HandlerReturn ==
    /\ alive
    /\ hd.pc = "loop" /\ hd.i > Len(RequestTriggers)
    /\ hd' = [hd EXCEPT !.pc = "done"]
    /\ resp' = [resp EXCEPT !.status = IF resp.status = 0 THEN 200 ELSE resp.status]
    /\ UNCHANGED <<cfgVars, handleVars, alive, taskVars, envVars, noteVars, sent,
                   mqttVars, outPortsSettled, srv, dc, outRetried>>

\* -------------------------------------------------------------- MqttOnEvent

\* The topics of the router under its base topic.
SendTopic == BaseTopic \o <<"/", "send">>
StatusCheckTopic == BaseTopic \o <<"/", "status", "/", "check">>
StatusTopic == BaseTopic \o <<"/", "status">>

\* strings.HasPrefix
HasPrefix(s, prefix) ==
    Len(s) >= Len(prefix) /\ SubSeq(s, 1, Len(prefix)) = prefix

\* The payload of an MQTT message: no bytes at all, bytes that are not JSON,
\* or a JSON object that gives some of "channel", "note" and "velocity".
PayloadFields == {"channel", "note", "velocity"}
EmptyPayload == [empty |-> TRUE, json |-> FALSE, fields |-> {}]
NotJson == [empty |-> FALSE, json |-> FALSE, fields |-> {}]
JsonObject(fields) == [empty |-> FALSE, json |-> TRUE, fields |-> fields]

\* The payloads messages are drawn from: none, the spec's full record, a full
\* record with velocity 0, a record that gives the note alone, a record whose
\* channel does not fit a uint8, and bytes that are not JSON.
MqttPayloads ==
    { EmptyPayload,
      JsonObject({<<"channel", 2>>, <<"note", 64>>, <<"velocity", 100>>}),
      JsonObject({<<"channel", 5>>, <<"note", 65>>, <<"velocity", 0>>}),
      JsonObject({<<"note", 66>>}),
      JsonObject({<<"channel", 300>>, <<"note", 64>>, <<"velocity", 100>>}),
      NotJson }

\* A uint8 field after json.Unmarshal: the value of the key when the object
\* gives it and it fits, else what the field held before.
MaxUint8 == 2 ^ 8 - 1
UnmarshalField(p, name, before) ==
    IF \E f \in p.fields : f[1] = name /\ f[2] <= MaxUint8
    THEN (CHOOSE f \in p.fields : f[1] = name)[2]
    ELSE before

\* json.Unmarshal(payload, &arguments) with arguments an MQTTPayload
\* (part_001:420-424): it fails on bytes that are not JSON and on a number
\* that does not fit its field, and it leaves a field whose key is absent as
\* it was.
UnmarshalIgnored(p, arguments) ==
    [err |-> ~p.json \/ \E f \in p.fields : f[2] > MaxUint8,
     arguments |-> arguments]

UnmarshalFresh(p, arguments) ==
    [err |-> ~p.json \/ \E f \in p.fields : f[2] > MaxUint8,
     arguments |-> [channel |-> UnmarshalField(p, "channel", 0),
                    note |-> UnmarshalField(p, "note", 0),
                    velocity |-> UnmarshalField(p, "velocity", 0)]]

Unmarshal(p, arguments) ==
    [err |-> ~p.json \/ \E f \in p.fields : f[2] > MaxUint8,
     arguments |-> [channel |-> UnmarshalField(p, "channel", arguments.channel),
                    note |-> UnmarshalField(p, "note", arguments.note),
                    velocity |-> UnmarshalField(p, "velocity", arguments.velocity)]]

\* The RequestTriggers an MQTT configuration is drawn from: a sub-topic whose
\* payload may override, an absolute topic with a default velocity of 0 and
\* the override disallowed, the first sub-topic again with the override
\* disallowed, triggers on <base-topic>/send and <base-topic>/status/check,
\* a trigger that only has a uri, and a trigger on <base-topic>/send_all.
MqttRequestTriggerPool ==
    { RequestTrigger(1, 60, 100, FALSE, EmptyStr, EmptyStr, <<"play">>, FALSE),
      RequestTrigger(2, 61, 0, FALSE, EmptyStr, OtherTopic, EmptyStr, TRUE),
      RequestTrigger(3, 62, 100, FALSE, EmptyStr, EmptyStr, <<"play">>, TRUE),
      RequestTrigger(4, 63, 100, FALSE, EmptyStr, EmptyStr, <<"send">>, FALSE),
      RequestTrigger(5, 64, 100, FALSE, EmptyStr, EmptyStr,
                     <<"status", "/", "check">>, FALSE),
      RequestTrigger(6, 65, 100, FALSE, <<"/", "send_note">>, EmptyStr, EmptyStr,
                     FALSE),
      RequestTrigger(7, 66, 100, FALSE, EmptyStr, EmptyStr, <<"send", "_all">>,
                     FALSE) }

\* part_001:743-744, the test of a trigger against the topic of the message.
\* The test of a trigger against the topic without the sub-topic.
TopicMatchesAbsoluteOnly(t, topic) ==
    t.MqttTopic # EmptyStr /\ topic = t.MqttTopic

TopicMatches(t, topic) ==
    \/ t.MqttTopic # EmptyStr /\ topic = t.MqttTopic
    \/ t.MqttSubTopic # EmptyStr /\ topic = BaseTopic \o <<"/">> \o t.MqttSubTopic

\* part_001:745-763, the channel, note and velocity of the event of trigger t
\* for a message with this payload, or the error of the decode.
MqttEventOf(t, payload) ==
    LET defaults == [channel |-> t.Channel, note |-> t.Note,
                     velocity |-> t.Velocity]
    IN  IF ~t.DisallowPayload /\ ~payload.empty
        THEN LET u == Unmarshal(payload, defaults)
             IN  [err |-> u.err, e |-> u.arguments]
        ELSE [err |-> FALSE, e |-> defaults]

\* part_001:790, var arguments MQTTPayload: the zero value.
ZeroArguments == [channel |-> 0, note |-> 0, velocity |-> 0]

\* part_001:788, the test of the direct path.
DirectPathNever(topic) == FALSE

DirectPath(topic) == HasPrefix(topic, SendTopic)

\* The fields of MidiRouter in the order of the struct (part_001:480-508), by
\* the kind of their type; none has a json tag.
RouterFieldKinds ==
    <<"string", "string", "struct", "bool", "slice", "slice", "int",
      "interface", "func", "interface">>

\* json.Marshal of a struct: encoding/json cannot encode a function, a channel
\* or a complex number, nil or not, and returns an UnsupportedTypeError and no
\* bytes.
JsonMarshal(kinds) ==
    IF \E k \in 1..Len(kinds) : kinds[k] \in {"func", "chan", "complex"}
    THEN [err |-> TRUE, bytes |-> <<>>]
    ELSE [err |-> FALSE, bytes |-> <<"config">>]

\* part_001:721-735, SendStatus: what it publishes. The error of Marshal is
\* logged and the publish is made all the same, with the bytes Marshal gave.
SendStatus(conn, mqtt) ==
    IF mqtt.DisableConfigSend
    THEN <<>>
    ELSE << [topic |-> StatusTopic, retained |-> TRUE,
             payload |-> JsonMarshal(RouterFieldKinds).bytes,
             ok |-> conn = "connected"] >>

NoMessage == [pc |-> "idle", topic |-> EmptyStr, payload |-> EmptyPayload,
              i |-> 0, err |-> "none", errAt |-> 0]

\* part_001:756-759 and 792-796: the decode failed, the error is logged and
\* MqttOnEvent returns.
DecodeFailedContinue(c) ==
    [c EXCEPT !.i = c.i + 1, !.err = "decode", !.errAt = c.i]

DecodeFailed(c) ==
    [c EXCEPT !.pc = "returned", !.err = "decode", !.errAt = c.i]

\* part_001:766-770 and 780-784: no sender, or the send failed; MqttOnEvent
\* returns.
SendFailed(c) == [c EXCEPT !.pc = "returned", !.err = "send", !.errAt = c.i]

\* The paho client calls MqttOnEvent with a message on a topic it is
\* subscribed to. One message is handled at a time.
MqttMessage ==
    /\ alive /\ mqttConn = "connected"
    /\ mq.pc \in {"idle", "done", "returned"}
    /\ \E topic \in subs, payload \in MqttPayloads :
         mq' = [pc |-> "loop", topic |-> topic, payload |-> payload, i |-> 1,
                err |-> "none", errAt |-> 0]
    /\ msent' = <<>>
    /\ pubs' = <<>>
    /\ UNCHANGED <<cfgVars, handleVars, alive, taskVars, envVars, noteVars,
                   httpVars, outPortsSettled, srv, dc, outRetried>>

\* part_001:742-785, one iteration of the loop of MqttOnEvent. midi.SendTo
\* calls IsOpen on the port: with no port (a nil interface) that panics, and
\* nothing recovers a panic in the callback of the paho client: the process
\* ends.
MqttOnEventIter ==
    /\ mq.pc = "loop" /\ mq.i <= Len(RequestTriggers)
    /\ alive
    /\ LET t == RequestTriggers[mq.i]
           d == MqttEventOf(t, mq.payload)
       IN  IF ~TopicMatches(t, mq.topic)
           THEN /\ mq' = [mq EXCEPT !.i = mq.i + 1]
                /\ UNCHANGED <<msent, alive>>
           ELSE IF d.err
           THEN /\ mq' = DecodeFailed(mq)
                /\ UNCHANGED <<msent, alive>>
           ELSE IF MidiOut = "nil"
           THEN /\ mq' = [mq EXCEPT !.pc = "panicked"]
                /\ alive' = FALSE
                /\ UNCHANGED msent
           ELSE \E sendToOk \in BOOLEAN, sendOk \in BOOLEAN :
                  /\ IF sendToOk /\ sendOk
                     THEN /\ msent' = Append(msent, MidiMessage(mq.i, d.e))
                          /\ mq' = [mq EXCEPT !.i = mq.i + 1]
                     ELSE /\ mq' = SendFailed(mq)
                          /\ UNCHANGED msent
                  /\ UNCHANGED alive
    /\ UNCHANGED <<cfgVars, handleVars, taskVars, envVars, noteVars, httpVars,
                   pubs, outPortsSettled, srv, dc, outRetried>>

\* part_001:787-819, what MqttOnEvent does after the loop: the direct send of
\* a message whose topic starts with <base-topic>/send, or the status publish
\* for <base-topic>/status/check; then it returns.
MqttOnEventTail ==
    /\ mq.pc = "loop" /\ mq.i > Len(RequestTriggers)
    /\ alive
    /\ LET u == Unmarshal(mq.payload, ZeroArguments)
       IN  IF DirectPath(mq.topic)
           THEN /\ IF mq.payload.empty
                   THEN /\ mq' = [mq EXCEPT !.pc = "done"]
                        /\ UNCHANGED <<msent, alive>>
                   ELSE IF u.err
                   THEN /\ mq' = DecodeFailed(mq)
                        /\ UNCHANGED <<msent, alive>>
                   ELSE IF MidiOut = "nil"
                   THEN /\ mq' = [mq EXCEPT !.pc = "panicked"]
                        /\ alive' = FALSE
                        /\ UNCHANGED msent
                   ELSE \E sendToOk \in BOOLEAN, sendOk \in BOOLEAN :
                          /\ IF sendToOk /\ sendOk
                             THEN /\ msent' = Append(msent, MidiMessage(0, u.arguments))
                                  /\ mq' = [mq EXCEPT !.pc = "done"]
                             ELSE /\ mq' = SendFailed(mq)
                                  /\ UNCHANGED msent
                          /\ UNCHANGED alive
                /\ UNCHANGED pubs
           ELSE /\ pubs' = IF mq.topic = StatusCheckTopic
                           THEN SendStatus(mqttConn, MQTT)
                           ELSE pubs
                /\ mq' = [mq EXCEPT !.pc = "done"]
                /\ UNCHANGED <<msent, alive>>
    /\ UNCHANGED <<cfgVars, handleVars, taskVars, envVars, noteVars, httpVars,
                   outPortsSettled, srv, dc, outRetried>>

\* ----------------------------------------------------------------- Connect

\* Connect() starting its tasks one after the other's success: only the first
\* task that the configuration asks for is started.
ConnectSequential ==
    /\ alive /\ mainPc = "start"
    /\ mainPc' = "connected"
    /\ outTask' = IF Len(RequestTriggers) # 0 THEN "run" ELSE "none"
    /\ inTask' = IF ~DisableListener /\ Len(RequestTriggers) = 0 THEN "run" ELSE "none"
    /\ mqttTask' = IF MQTT.Enabled /\ Len(RequestTriggers) = 0 /\ DisableListener
                   THEN "new" ELSE "none"
    /\ UNCHANGED <<cfgVars, handleVars, alive, envVars, noteVars, httpVars,
                   mqttVars, outPortsSettled, srv, dc, outRetried>>

\* part_001:831-960, Connect() as main calls it (part_001:55-56): it starts
\* up to three goroutines and returns.
Connect ==
    /\ alive /\ mainPc = "start"
    /\ mainPc' = "connected"
    /\ outTask' = IF Len(RequestTriggers) # 0 THEN "run" ELSE "none"
    /\ inTask' = IF ~DisableListener THEN "run" ELSE "none"
    /\ mqttTask' = IF MQTT.Enabled THEN "new" ELSE "none"
    /\ UNCHANGED <<cfgVars, handleVars, alive, envVars, noteVars, httpVars,
                   mqttVars, outPortsSettled, srv, dc, outRetried>>

\* part_001:57-65, main registers the handlers and starts the HTTP server.
MainServe ==
    /\ alive /\ mainPc = "connected"
    /\ mainPc' = "serving"
    /\ srv' = "serving"
    /\ UNCHANGED <<cfgVars, handleVars, alive, outTask, inTask, mqttTask, envVars,
                   noteVars, httpVars,
                   mqttVars, outPortsSettled, dc, outRetried>>

\* part_001:840-846 and 873-879: the scan of the enumerated ports. Every port
\* the pattern matches is opened, the last one is kept, and err is the result
\* of the last Open.
RECURSIVE ScanPorts(_, _, _, _)
ScanPorts(ports, k, failing, st) ==
    IF k > Len(ports) THEN st
    ELSE ScanPorts(ports, k + 1, failing,
                   IF ports[k] \in MatchingPorts
                   THEN [dev |-> ports[k], err |-> ports[k] \in failing,
                         opened |-> st.opened \cup
                                    (IF ports[k] \in failing THEN {} ELSE {ports[k]})]
                   ELSE st)

NoPort == [dev |-> "nil", err |-> FALSE, opened |-> {}]

\* part_001:847-855 and 880-888: no device, or an error of the last Open.
ScanFailed(r) == r.dev = "nil" \/ r.err

\* part_001:834-859, one round of the output-port goroutine. A pattern that
\* does not compile leaves deviceRx nil, and MatchString on it panics as soon
\* as a port is enumerated: a panic in a goroutine ends the process.
OutTaskAttempt ==
    /\ alive /\ outTask = "run"
    /\ \E ports \in PortLists, failing \in SUBSET MatchingPorts :
         LET r == ScanPorts(ports, 1, failing, NoPort)
         IN  /\ outPortsSettled => ~ScanFailed(r)
             /\ IF Device # ValidDevice /\ Len(ports) > 0
                THEN /\ alive' = FALSE
                     /\ UNCHANGED <<MidiOut, outTask, outOpened>>
                ELSE /\ outOpened' = outOpened \cup r.opened
                     /\ IF ScanFailed(r)
                        THEN outTask' = "sleep" /\ UNCHANGED MidiOut
                        ELSE outTask' = "done" /\ MidiOut' = r.dev
                     /\ UNCHANGED alive
    /\ UNCHANGED <<cfgVars, ListenerStop, MqttClient, mainPc, inTask, mqttTask,
                   listening, mqttConn, subs, noteVars, httpVars,
                   mqttVars, outPortsSettled, srv, dc, outRetried>>

\* The output-port goroutine giving up after a failed round.
OutTaskGiveUp ==
    /\ alive /\ outTask = "sleep"
    /\ outTask' = "failed"
    /\ UNCHANGED <<cfgVars, handleVars, alive, mainPc, inTask, mqttTask, envVars,
                   noteVars, httpVars, mqttVars, outPortsSettled, srv, dc, outRetried>>

\* part_001:857-858, the minute of the output-port goroutine is over.
OutTaskWake ==
    /\ alive /\ outTask = "sleep"
    /\ outTask' = "run"
    /\ outRetried' = TRUE
    /\ UNCHANGED <<cfgVars, handleVars, alive, mainPc, inTask, mqttTask, envVars,
                   noteVars, httpVars,
                   mqttVars, outPortsSettled, srv, dc>>

\* part_001:865-916, one round of the input-listener goroutine, up to the
\* return of midi.ListenTo.
InTaskAttempt ==
    /\ alive /\ inTask = "run"
    /\ \E ports \in PortLists, failing \in SUBSET MatchingPorts, listenOk \in BOOLEAN :
         IF Device # ValidDevice /\ Len(ports) > 0
         THEN /\ alive' = FALSE
              /\ UNCHANGED <<inTask, listening>>
         ELSE LET r == ScanPorts(ports, 1, failing, NoPort)
              IN  /\ IF ScanFailed(r) \/ ~listenOk
                     THEN inTask' = "sleep" /\ UNCHANGED listening
                     ELSE inTask' = "registered" /\ listening' = TRUE
                  /\ UNCHANGED alive
    /\ UNCHANGED <<cfgVars, handleVars, mainPc, outTask, mqttTask, outOpened,
                   mqttConn, subs, noteVars, httpVars,
                   mqttVars, outPortsSettled, srv, dc, outRetried>>

\* part_001:886 and 912, the minute of the input-listener goroutine is over.
InTaskWake ==
    /\ alive /\ inTask = "sleep"
    /\ inTask' = "run"
    /\ UNCHANGED <<cfgVars, handleVars, alive, mainPc, outTask, mqttTask, envVars,
                   noteVars, httpVars,
                   mqttVars, outPortsSettled, srv, dc, outRetried>>

\* part_001:917-919, the stop function is stored and the goroutine ends.
InTaskStore ==
    /\ alive /\ inTask = "registered"
    /\ ListenerStop' = "stop"
    /\ inTask' = "done"
    /\ UNCHANGED <<cfgVars, MidiOut, MqttClient, alive, mainPc, outTask, mqttTask,
                   envVars, noteVars, httpVars,
                   mqttVars, outPortsSettled, srv, dc, outRetried>>

\* part_001:928-933, the MQTT goroutine makes the client and stores it.
MqttTaskNewClient ==
    /\ alive /\ mqttTask = "new"
    /\ MqttClient' = "client"
    /\ mqttConn' = "connecting"
    /\ mqttTask' = "connect"
    /\ UNCHANGED <<cfgVars, MidiOut, ListenerStop, alive, mainPc, outTask, inTask,
                   outOpened, listening, subs, noteVars, httpVars,
                   mqttVars, outPortsSettled, srv, dc, outRetried>>

\* The topics subscribed after the connect without the tests for an empty
\* topic and an empty sub-topic.
SubscriptionsUnguarded ==
    {BaseTopic \o <<"/", "send">>, BaseTopic \o <<"/", "status", "/", "check">>}
    \cup {RequestTriggers[k].MqttTopic : k \in 1..Len(RequestTriggers)}
    \cup {BaseTopic \o <<"/">> \o RequestTriggers[k].MqttSubTopic :
              k \in 1..Len(RequestTriggers)}

\* part_001:945-955, the topics subscribed after the connect.
Subscriptions ==
    {BaseTopic \o <<"/", "send">>, BaseTopic \o <<"/", "status", "/", "check">>}
    \cup {RequestTriggers[k].MqttTopic : k \in {j \in 1..Len(RequestTriggers) :
                                      RequestTriggers[j].MqttTopic # EmptyStr}}
    \cup {BaseTopic \o <<"/">> \o RequestTriggers[k].MqttSubTopic :
              k \in {j \in 1..Len(RequestTriggers) :
                         RequestTriggers[j].MqttSubTopic # EmptyStr}}

\* The connect of the client with the retry that follows log.Fatalf in the
\* source (part_001:939-941) in place of the exit.
MqttTaskConnectRetrying ==
    /\ alive /\ mqttTask = "connect"
    /\ \E ok \in BOOLEAN :
         IF ok
         THEN /\ mqttConn' = "connected"
              /\ subs' = Subscriptions
              /\ mqttTask' = "done"
         ELSE /\ mqttTask' = "new"
              /\ UNCHANGED <<mqttConn, subs>>
    /\ UNCHANGED <<cfgVars, handleVars, alive, mainPc, outTask, inTask, outOpened,
                   listening, noteVars, httpVars, mqttVars, outPortsSettled, srv, dc, outRetried>>

\* part_001:936-956, Connect() of the client returns: a failure is fatal
\* (log.Fatalf exits the process), a success is followed by the subscriptions.
MqttTaskConnect ==
    /\ alive /\ mqttTask = "connect"
    /\ \E ok \in BOOLEAN :
         IF ok
         THEN /\ mqttConn' = "connected"
              /\ subs' = Subscriptions
              /\ mqttTask' = "done"
              /\ UNCHANGED alive
         ELSE /\ alive' = FALSE
              /\ UNCHANGED <<mqttConn, subs, mqttTask>>
    /\ UNCHANGED <<cfgVars, handleVars, mainPc, outTask, inTask, outOpened,
                   listening, noteVars, httpVars,
                   mqttVars, outPortsSettled, srv, dc, outRetried>>

\* The driver (part_001:841, midi.GetOutPorts): from this moment on a port
\* that the pattern matches is enumerated and the port the scan keeps opens.
OutPortsSettle ==
    /\ ~outPortsSettled
    /\ outPortsSettled' = TRUE
    /\ UNCHANGED <<cfgVars, handleVars, alive, taskVars, envVars, noteVars,
                   httpVars, mqttVars, srv, dc, outRetried>>

\* ------------------------------------------------- Disconnect and shutdown

\* Disconnect() is called by main once for each router (part_001:76-78); the
\* method is exported, and it is modelled called up to this many times.
MaxDisconnects == 2

NoDisconnect == [calls |-> 0, stops |-> 0, disconnects |-> 0]

\* Disconnect() clearing the two handles it has used.
DisconnectClearing ==
    /\ alive /\ mainPc \in {"cancelled", "disconnected"}
    /\ dc.calls < MaxDisconnects
    /\ mainPc' = "disconnected"
    /\ MidiOut' = "nil" /\ ListenerStop' = "nil" /\ MqttClient' = "nil"
    /\ listening' = IF ListenerStop # "nil" THEN FALSE ELSE listening
    /\ mqttConn' = IF MqttClient # "nil" /\ mqttConn = "connected"
                   THEN "disconnected" ELSE mqttConn
    /\ dc' = [calls |-> dc.calls + 1,
              stops |-> dc.stops + (IF ListenerStop # "nil" THEN 1 ELSE 0),
              disconnects |-> dc.disconnects + (IF MqttClient # "nil" THEN 1 ELSE 0)]
    /\ UNCHANGED <<cfgVars, alive, outTask, inTask, mqttTask,
                   outOpened, subs, noteVars, httpVars, mqttVars,
                   outPortsSettled, srv, outRetried>>

\* part_001:963-971, Disconnect(): the output port is forgotten, the stop
\* function of the listener is called when there is one, and so is the
\* Disconnect of the MQTT client; the two fields keep their values. The
\* goroutines of Connect() are not stopped.
Disconnect ==
    /\ alive /\ mainPc \in {"cancelled", "disconnected"}
    /\ dc.calls < MaxDisconnects
    /\ mainPc' = "disconnected"
    /\ MidiOut' = "nil"
    /\ listening' = IF ListenerStop # "nil" THEN FALSE ELSE listening
    /\ mqttConn' = IF MqttClient # "nil" /\ mqttConn = "connected"
                   THEN "disconnected" ELSE mqttConn
    /\ dc' = [calls |-> dc.calls + 1,
              stops |-> dc.stops + (IF ListenerStop # "nil" THEN 1 ELSE 0),
              disconnects |-> dc.disconnects + (IF MqttClient # "nil" THEN 1 ELSE 0)]
    /\ UNCHANGED <<cfgVars, ListenerStop, MqttClient, alive, outTask, inTask, mqttTask,
                   outOpened, subs, noteVars, httpVars, mqttVars,
                   outPortsSettled, srv, outRetried>>

\* part_001:68-73, main receives SIGINT or SIGTERM and cancels the context.
MainCancel ==
    /\ alive /\ mainPc = "serving"
    /\ mainPc' = "cancelled"
    /\ UNCHANGED <<cfgVars, handleVars, alive, outTask, inTask, mqttTask, envVars,
                   noteVars, httpVars, mqttVars, outPortsSettled, srv, dc,
                   outRetried>>

\* part_000:59-62, the goroutine that waits for the context calls Shutdown:
\* the listener is closed, no request is taken in any more.
ServerShutdown ==
    /\ alive /\ mainPc \in {"cancelled", "disconnected"}
    /\ srv = "serving"
    /\ srv' = "closing"
    /\ UNCHANGED <<cfgVars, handleVars, alive, taskVars, envVars, noteVars,
                   httpVars, mqttVars, outPortsSettled, dc, outRetried>>

\* part_000:62-66, Shutdown returns once no handler is running.
ServerShutdownDone ==
    /\ alive /\ srv = "closing"
    /\ hd.pc # "loop"
    /\ srv' = "closed"
    /\ UNCHANGED <<cfgVars, handleVars, alive, taskVars, envVars, noteVars,
                   httpVars, mqttVars, outPortsSettled, dc, outRetried>>

\* part_001:79, main returns after the loop of Disconnect() and the process
\* ends, whatever its goroutines are doing.
MainReturn ==
    /\ alive /\ mainPc = "disconnected"
    /\ alive' = FALSE
    /\ UNCHANGED <<cfgVars, handleVars, taskVars, envVars, noteVars, httpVars,
                   mqttVars, outPortsSettled, srv, dc, outRetried>>

\* ------------------------------------------------- the MIDI-event path alone

\* The state after construction (fig.Load): no handle is set, nothing runs.
InitRuntime ==
    /\ MidiOut = "nil" /\ ListenerStop = "nil" /\ MqttClient = "nil"
    /\ alive = TRUE
    /\ mainPc = "start" /\ outTask = "none" /\ inTask = "none" /\ mqttTask = "none"
    /\ outOpened = {} /\ listening = FALSE /\ mqttConn = "none" /\ subs = {}
    /\ sr = Idle /\ log = <<>>
    /\ hd = NoRequest /\ resp = NoResponse /\ sent = <<>>
    /\ mq = NoMessage /\ msent = <<>> /\ pubs = <<>>
    /\ outPortsSettled = FALSE
    /\ srv = "off" /\ dc = NoDisconnect /\ outRetried = FALSE

\* Routers that only have NoteTriggers.
InitNote ==
    /\ Device = ValidDevice
    /\ NoteTriggers \in SeqUpTo(NoteTriggerPool, MaxNoteTriggers)
    /\ RequestTriggers = <<>>
    /\ MQTT \in [Enabled : BOOLEAN, DisableMidiFirehose : BOOLEAN,
                 DisableConfigSend : {FALSE}]
    /\ DisableListener = FALSE
    /\ LogLevel = DebugLog
    /\ InitRuntime

NextNote ==
    \/ Connect
    \/ InTaskAttempt \/ InTaskWake \/ InTaskStore
    \/ MqttTaskNewClient \/ MqttTaskConnect
    \/ ListenerCallback \/ SendRequestIter \/ SendRequestReturn

SpecNote == InitNote /\ [][NextNote]_vars

\* ------------------------------------------------ the HTTP-request path alone

\* Routers that only have RequestTriggers, no listener and no broker.
InitHttp ==
    /\ Device = ValidDevice
    /\ NoteTriggers = <<>>
    /\ RequestTriggers \in SeqUpTo(HttpRequestTriggerPool, MaxRequestTriggers)
    /\ MQTT = [Enabled |-> FALSE, DisableMidiFirehose |-> FALSE,
               DisableConfigSend |-> FALSE]
    /\ DisableListener = TRUE
    /\ LogLevel = ErrorLog
    /\ InitRuntime

NextHttp ==
    \/ Connect \/ MainServe
    \/ OutTaskAttempt \/ OutTaskWake
    \/ HttpRequest \/ HandlerIter \/ HandlerReturn

SpecHttp == InitHttp /\ [][NextHttp]_vars

\* ------------------------------------------------ the MQTT-message path alone

\* Routers that have RequestTriggers on MQTT topics and a broker, no listener.
InitMqtt ==
    /\ Device = ValidDevice
    /\ NoteTriggers = <<>>
    /\ RequestTriggers \in SeqUpTo(MqttRequestTriggerPool, MaxRequestTriggers)
    /\ MQTT \in [Enabled : {TRUE}, DisableMidiFirehose : {FALSE},
                 DisableConfigSend : BOOLEAN]
    /\ DisableListener = TRUE
    /\ LogLevel = ErrorLog
    /\ InitRuntime

NextMqtt ==
    \/ Connect
    \/ OutTaskAttempt \/ OutTaskWake
    \/ MqttTaskNewClient \/ MqttTaskConnect
    \/ MqttMessage \/ MqttOnEventIter \/ MqttOnEventTail

SpecMqtt == InitMqtt /\ [][NextMqtt]_vars

\* ------------------------------------- the three paths that send MIDI events

\* Routers whose RequestTriggers are reached over HTTP and over MQTT: a
\* trigger with a uri, a sub-topic and a default velocity of 0 next to a
\* trigger on <base-topic>/send, and a trigger with a uri and an absolute topic.
OutConfigs ==
    { << RequestTrigger(3, 62, 0, FALSE, <<"/", "send|note">>, EmptyStr, <<"play">>, FALSE),
         RequestTrigger(4, 63, 100, FALSE, EmptyStr, EmptyStr, <<"send">>, FALSE) >>,
      << RequestTrigger(2, 61, 100, TRUE, <<"/", "send|note">>, OtherTopic, EmptyStr, TRUE) >> }

InitOut ==
    /\ Device = ValidDevice
    /\ NoteTriggers = <<>>
    /\ RequestTriggers \in OutConfigs
    /\ MQTT = [Enabled |-> TRUE, DisableMidiFirehose |-> FALSE,
               DisableConfigSend |-> FALSE]
    /\ DisableListener = TRUE
    /\ LogLevel = ErrorLog
    /\ InitRuntime

NextOut ==
    \/ Connect \/ MainServe
    \/ OutTaskAttempt \/ OutTaskWake
    \/ MqttTaskNewClient \/ MqttTaskConnect
    \/ HttpRequest \/ HandlerIter \/ HandlerReturn
    \/ MqttMessage \/ MqttOnEventIter \/ MqttOnEventTail

SpecOut == InitOut /\ [][NextOut]_vars

\* ------------------------------------------------------ the tasks of Connect

\* Routers with and without RequestTriggers, listener and broker, and with a
\* device pattern that compiles or does not.
InitConnect ==
    /\ Device \in {ValidDevice, InvalidDevice}
    /\ NoteTriggers = <<>>
    /\ RequestTriggers \in
         { <<>>,
           << RequestTrigger(2, 61, 100, TRUE, <<"/", "send|note">>, EmptyStr,
                             <<"play">>, FALSE) >> }
    /\ MQTT \in [Enabled : BOOLEAN, DisableMidiFirehose : {FALSE},
                 DisableConfigSend : {FALSE}]
    /\ DisableListener \in BOOLEAN
    /\ LogLevel = ErrorLog
    /\ InitRuntime

NextConnect ==
    \/ Connect \/ MainServe
    \/ OutTaskAttempt \/ OutTaskWake
    \/ InTaskAttempt \/ InTaskWake \/ InTaskStore
    \/ MqttTaskNewClient \/ MqttTaskConnect
    \/ OutPortsSettle

SpecConnect == InitConnect /\ [][NextConnect]_vars

\* The goroutine of the output port is scheduled when it can run, and
\* time.Sleep(time.Minute) returns.
SpecConnectLive ==
    /\ InitConnect /\ [][NextConnect]_vars
    /\ WF_vars(OutTaskAttempt) /\ WF_vars(OutTaskWake)

\* ------------------------------------------------------ start to Disconnect

\* A router with a listener, a broker and one RequestTrigger, from Connect()
\* to the end of main, with no request served.
InitDisconnect ==
    /\ Device = ValidDevice
    /\ NoteTriggers = <<>>
    /\ RequestTriggers =
         << RequestTrigger(2, 61, 100, FALSE, <<"/", "send|note">>, EmptyStr,
                           <<"play">>, FALSE) >>
    /\ MQTT = [Enabled |-> TRUE, DisableMidiFirehose |-> FALSE,
               DisableConfigSend |-> FALSE]
    /\ DisableListener = FALSE
    /\ LogLevel = ErrorLog
    /\ InitRuntime

NextDisconnect ==
    \/ Connect \/ MainServe
    \/ OutTaskAttempt \/ OutTaskWake
    \/ InTaskAttempt \/ InTaskWake \/ InTaskStore
    \/ MqttTaskNewClient \/ MqttTaskConnect
    \/ MainCancel \/ Disconnect \/ MainReturn

SpecDisconnect == InitDisconnect /\ [][NextDisconnect]_vars

\* ------------------------------------------------------ requests at shutdown

\* A router with one RequestTrigger reached over HTTP, no listener and no
\* broker, from Connect() to the end of main.
InitShutdown ==
    /\ Device = ValidDevice
    /\ NoteTriggers = <<>>
    /\ RequestTriggers =
         << RequestTrigger(2, 61, 100, FALSE, <<"/", "send|note">>, EmptyStr,
                           EmptyStr, FALSE) >>
    /\ MQTT = [Enabled |-> FALSE, DisableMidiFirehose |-> FALSE,
               DisableConfigSend |-> FALSE]
    /\ DisableListener = TRUE
    /\ LogLevel = ErrorLog
    /\ InitRuntime

NextShutdown ==
    \/ Connect \/ MainServe
    \/ OutTaskAttempt \/ OutTaskWake
    \/ HttpRequest \/ HandlerIter \/ HandlerReturn
    \/ MainCancel \/ ServerShutdown \/ ServerShutdownDone
    \/ Disconnect \/ MainReturn

SpecShutdown == InitShutdown /\ [][NextShutdown]_vars

\* ------------------------------------------------- claims, MIDI-event path

\* The positions of log where trigger i (0: the firehose) did something of `kind`.
Did(i, kind) == {k \in 1..Len(log) : log[k].trig = i /\ log[k].kind = kind}

\* Trigger i's body was entered for the event.
Entered(i) == \E k \in 1..Len(log) : log[k].trig = i

\* The messages on <base-topic>/cmd that went out, in a log.
CmdMessages(l) ==
    {k \in 1..Len(l) : l[k].kind = "publish" /\ l[k].target = CmdTopic /\ l[k].ok}

TriggerIndexes == 1..Len(NoteTriggers)

C2_OnlyTheFirehoseOnCmd ==
    [][/\ (sr.pc \in {"idle", "done"} /\ sr'.pc = "loop") =>
            IF mqttConn = "connected" /\ ~MQTT.DisableMidiFirehose
            THEN /\ Cardinality(CmdMessages(log')) = 1
                 /\ \A k \in CmdMessages(log') :
                      log'[k].payload = [kind |-> "midi", channel |-> sr'.channel,
                                         note |-> sr'.note, velocity |-> sr'.velocity]
            ELSE CmdMessages(log') = {}
       /\ (sr.pc = "loop" /\ sr'.pc = "loop") =>
            Cardinality(CmdMessages(log')) = Cardinality(CmdMessages(log))]_vars

\* C2, amended: the firehose step is as stated, and a message that the
\* processing of trigger i adds on <base-topic>/cmd is trigger i's own publish,
\* to its configured topic <base-topic>/cmd; the firehose itself is not repeated.
C2_OneFirehosePerEvent ==
    [][/\ (sr.pc \in {"idle", "done"} /\ sr'.pc = "loop") =>
            IF mqttConn = "connected" /\ ~MQTT.DisableMidiFirehose
            THEN /\ Cardinality(CmdMessages(log')) = 1
                 /\ \A k \in CmdMessages(log') :
                      /\ log'[k].trig = 0
                      /\ log'[k].payload = [kind |-> "midi", channel |-> sr'.channel,
                                            note |-> sr'.note, velocity |-> sr'.velocity]
            ELSE CmdMessages(log') = {}
       /\ (sr.pc = "loop" /\ sr'.pc = "loop") =>
            \A k \in CmdMessages(log') \ CmdMessages(log) :
                /\ log'[k].trig = sr.i
                /\ NoteTriggers[sr.i].MqttTopic = CmdTopic]_vars

\* C2's case: an event with two matching triggers was processed with the
\* client connected, and one firehose message went out.
C2_Witness ==
    /\ sr.pc = "done"
    /\ Cardinality({i \in TriggerIndexes : Entered(i)}) >= 2
    /\ Cardinality({k \in CmdMessages(log) : log[k].trig = 0}) = 1

\* The HTTP requests (calls of client.Do) made for trigger i.
Requests(i) == Did(i, "http")

\* C3 as stated: a trigger with a URL makes exactly one request to it, with
\* GET when it has no method, for an event it matches, and none for an event
\* it does not match.
C3_OneRequestPerMatch ==
    sr.pc = "done" =>
      \A i \in TriggerIndexes :
        LET t == NoteTriggers[i]
        IN  t.URL # EmptyStr =>
              IF Entered(i)
              THEN /\ Cardinality(Requests(i)) = 1
                   /\ \A k \in Requests(i) :
                        /\ log[k].target = t.URL
                        /\ t.Method = "" => log[k].method = "GET"
              ELSE Requests(i) = {}

\* C3, amended: as stated when url.Parse accepts the URL and the method is one
\* http.NewRequest accepts (or none); with a URL that does not parse or an
\* invalid method no request is made.
C3_OneRequestPerMatchIfWellFormed ==
    sr.pc = "done" =>
      \A i \in TriggerIndexes :
        LET t == NoteTriggers[i]
            wellFormed == UrlParses(t.URL) /\ t.Method \in ValidMethods \cup {""}
        IN  t.URL # EmptyStr =>
              IF Entered(i) /\ wellFormed
              THEN /\ Cardinality(Requests(i)) = 1
                   /\ \A k \in Requests(i) :
                        /\ log[k].target = t.URL
                        /\ log[k].method = IF t.Method = "" THEN "GET" ELSE t.Method
              ELSE Requests(i) = {}

\* C3's case: one trigger with a URL and no method made its GET, another
\* trigger with a URL did not match the event.
C3_Witness ==
    /\ sr.pc = "done"
    /\ \E i, j \in TriggerIndexes :
         /\ NoteTriggers[i].URL = GoodURL /\ NoteTriggers[i].Method = ""
         /\ \E k \in Requests(i) : log[k].method = "GET" /\ log[k].ok
         /\ NoteTriggers[j].URL # EmptyStr /\ ~Entered(j)

\* C4: a trigger with neither an MQTT topic nor a URL never publishes and never
\* makes a request, matching or not.
C4_InertTrigger ==
    \A i \in TriggerIndexes :
      (NoteTriggers[i].MqttTopic = EmptyStr /\ NoteTriggers[i].URL = EmptyStr)
        => (Did(i, "publish") = {} /\ Did(i, "http") = {})

\* C4's case: an inert trigger matched an event that was processed with the
\* client connected (the firehose message went out).
C4_Witness ==
    /\ sr.pc = "done"
    /\ \E k \in Did(0, "publish") : log[k].ok
    /\ \E i \in TriggerIndexes :
         /\ NoteTriggers[i].MqttTopic = EmptyStr /\ NoteTriggers[i].URL = EmptyStr
         /\ Entered(i)

\* The place of an entry within the body of the loop.
Rank(e) ==
    CASE e.kind = "sleep" /\ e.method = "before" -> 1
      [] e.kind = "publish" -> 2
      [] e.kind = "http" -> 3
      [] OTHER -> 4

\* C5: what is done for one event is done in the order of the triggers, all of
\* one trigger before anything of a later one, and for one trigger the sleep
\* before, then the publish, then the request, then the sleep after.
C5_DeclarationOrder ==
    \A p, q \in 1..Len(log) :
      p < q =>
        \/ log[p].trig < log[q].trig
        \/ log[p].trig = log[q].trig /\ Rank(log[p]) < Rank(log[q])

\* C5's case: two matching triggers each published and made a request.
C5_Witness ==
    /\ sr.pc = "done"
    /\ \E i, j \in TriggerIndexes :
         /\ i < j
         /\ Did(i, "publish") # {} /\ Did(i, "http") # {}
         /\ Did(j, "publish") # {} /\ Did(j, "http") # {}

\* Trigger i's HTTP action was abandoned: it has a URL, its body was entered
\* and was left before the sleep that ends it.
Abandoned(i) ==
    /\ NoteTriggers[i].URL # EmptyStr
    /\ Entered(i)
    /\ \A k \in Did(i, "sleep") : log[k].method = "before"

\* C6: after the HTTP action of a trigger was abandoned, every later trigger
\* matching the event has its body entered, its request made when its URL and
\* method are well-formed, and its message published when it has a topic and an
\* encodable payload and the client was there from the start of the event.
C6_SiblingsStillRun ==
    sr.pc = "done" =>
      \A i, j \in TriggerIndexes :
        LET t == NoteTriggers[j]
        IN  ( /\ i < j /\ Abandoned(i)
              /\ (t.Channel = sr.channel \/ t.MatchAllChannels)
              /\ (t.Note = sr.note \/ t.MatchAllNotes)
              /\ (t.Velocity = sr.velocity \/ t.MatchAllVelocities) )
            => /\ Entered(j)
               /\ (t.URL # EmptyStr /\ UrlParses(t.URL)
                   /\ t.Method \in ValidMethods \cup {""}) => Requests(j) # {}
               /\ (t.MqttTopic # EmptyStr /\ t.MqttPayload # "unencodable"
                   /\ Did(0, "publish") # {}) => Did(j, "publish") # {}

\* C6's case: the request of a trigger failed in the transport, and a later
\* trigger published and made its request.
C6_Witness ==
    /\ sr.pc = "done"
    /\ \E i, j \in TriggerIndexes :
         /\ i < j /\ Abandoned(i)
         /\ \E k \in Requests(i) : ~log[k].ok
         /\ Did(j, "publish") # {} /\ Requests(j) # {}

\* ------------------------------------------------ claims, HTTP-request path

RequestTriggerIndexes == 1..Len(RequestTriggers)

\* C7: when Handler comes to a trigger whose URI is the path of the request,
\* with the output port bound, and the send does not fail, it sends one MIDI
\* event for that trigger and the status of the response is 204.
C7_PathMatchSends ==
    [][( /\ hd.pc = "loop" /\ hd' # hd
         /\ hd.i \in RequestTriggerIndexes
         /\ RequestTriggers[hd.i].URI = hd.Path
         /\ MidiOut # "nil"
         /\ hd'.pc # "failed" )
       => /\ Len(sent') = Len(sent) + 1
          /\ sent'[Len(sent')].trig = hd.i
          /\ resp'.status = 204]_vars

\* A query parameter holds a number of the accepted range 0..max.
InRange(s, max) == NumRx(s) /\ ~Atoi(s).err /\ Atoi(s).i <= max

\* C8: every event sent for a trigger with midi_info_in_request has, for each
\* of channel, note and velocity, the value of the query parameter when that
\* is a number of the accepted range (0..255, 0..254, 0..127), and the
\* trigger's default otherwise.
C8_QueryOverrides ==
    \A k \in 1..Len(sent) :
      LET t == RequestTriggers[sent[k].trig]
          q == hd.query
      IN  t.MidiInfoInRequest =>
            /\ sent[k].channel = IF InRange(q.channel, 255)
                                 THEN Atoi(q.channel).i ELSE t.Channel
            /\ sent[k].note = IF InRange(q.note, 254)
                              THEN Atoi(q.note).i ELSE t.Note
            /\ sent[k].velocity = IF InRange(q.velocity, 127)
                                  THEN Atoi(q.velocity).i ELSE t.Velocity

\* A query parameter is given and is not a number of the range 0..max.
NotAccepted(s, max) == s # Absent /\ ~InRange(s, max)

\* C9: in every event sent for a trigger with midi_info_in_request, a field
\* whose query parameter is non-numeric or out of range has the trigger's
\* default; and the response is an error only after a failed send.
C9_InvalidKeepsDefault ==
    /\ \A k \in 1..Len(sent) :
         LET t == RequestTriggers[sent[k].trig]
             q == hd.query
         IN  t.MidiInfoInRequest =>
               /\ NotAccepted(q.channel, 255) => sent[k].channel = t.Channel
               /\ NotAccepted(q.note, 254) => sent[k].note = t.Note
               /\ NotAccepted(q.velocity, 127) => sent[k].velocity = t.Velocity
    /\ resp.status = 500 => hd.pc = "failed"

\* C9's case: a request with note=abc, velocity=200 and channel=256 was
\* answered 204 after the event of a trigger with midi_info_in_request was sent.
C9_Witness ==
    /\ hd.pc = "done" /\ resp.status = 204
    /\ hd.query = [channel |-> <<"2", "5", "6">>, note |-> <<"a", "b", "c">>,
                   velocity |-> <<"2", "0", "0">>]
    /\ \E k \in 1..Len(sent) : RequestTriggers[sent[k].trig].MidiInfoInRequest

\* C10: when Handler has returned because the sender could not be had or the
\* send failed, the status of the response is 500 and no trigger after the
\* failing one has sent an event.
C10_FailureIs500 ==
    hd.pc = "failed" =>
      /\ resp.status = 500
      /\ \A k \in 1..Len(sent) : sent[k].trig < hd.i

\* ------------------------------------------------ claims, outbound messages

\* A message is a note-off when its velocity is 0 and a note-on otherwise.
WellFormedNote(m) ==
    m.type = IF m.velocity = 0 THEN "NoteOff" ELSE "NoteOn"

\* C11: every MIDI message sent by Handler, by MqttOnEvent for a trigger and
\* by the direct path of <base-topic>/send is a note-off when the velocity of
\* its event is 0 and a note-on with that velocity otherwise: no note-on with
\* velocity 0 is sent.
C11_VelocityZeroIsNoteOff ==
    /\ \A k \in 1..Len(sent) : WellFormedNote(sent[k])
    /\ \A k \in 1..Len(msent) : WellFormedNote(msent[k])

\* C11's case: Handler has sent the note-off of a trigger whose default
\* velocity is 0, and MqttOnEvent has sent, for a payload with velocity 0 on
\* <base-topic>/send, a note-off for the trigger of that topic and a note-off
\* on the direct path.
C11_Witness ==
    /\ \E k \in 1..Len(sent) : sent[k].type = "NoteOff" /\ sent[k].velocity = 0
    /\ Len(msent) = 2
    /\ msent[1].trig = 2 /\ msent[1].type = "NoteOff" /\ msent[1].velocity = 0
    /\ msent[2].trig = 0 /\ msent[2].type = "NoteOff" /\ msent[2].velocity = 0

\* ------------------------------------------------- claims, MQTT-message path

\* The MIDI messages MqttOnEvent has sent for trigger i; i = 0 is the direct
\* path of <base-topic>/send.
MsentOf(i) == SelectSeq(msent, LAMBDA m : m.trig = i)

\* MqttOnEvent has gone past trigger i of the running or finished call: the
\* trigger was tested and, when it matched, its event was sent without failure.
Passed(i) ==
    /\ i \in RequestTriggerIndexes
    /\ mq.pc \in {"loop", "done", "returned", "panicked"}
    /\ mq.i > i

\* The payload is a JSON object that gives the key / the value it gives.
Given(p, name) == p.json /\ \E f \in p.fields : f[1] = name
ValueOf(p, name) == (CHOOSE f \in p.fields : f[1] = name)[2]

\* The payload is a full {channel, note, velocity} record of uint8 values.
FullPayload(p) ==
    /\ \A name \in PayloadFields : Given(p, name)
    /\ \A f \in p.fields : f[2] <= MaxUint8

\* The message on <base-topic>/<sub-topic> of trigger t.
OnSubTopicOf(t) ==
    t.MqttSubTopic # EmptyStr /\ mq.topic = BaseTopic \o <<"/">> \o t.MqttSubTopic

OverrideApplied(i) ==
    /\ Passed(i)
    /\ TopicMatches(RequestTriggers[i], mq.topic)
    /\ ~RequestTriggers[i].DisallowPayload
    /\ ~mq.payload.empty

\* C13 as stated: when the override applies, the event sent is the record
\* decoded from the payload alone: a field the payload does not give is not
\* taken from the trigger (it is the zero of a fresh record).
C13_PayloadReplacesDefaults ==
    \A i \in RequestTriggerIndexes :
      OverrideApplied(i) =>
        /\ Len(MsentOf(i)) = 1
        /\ MsentOf(i)[1].channel = UnmarshalFresh(mq.payload, ZeroArguments).arguments.channel
        /\ MsentOf(i)[1].note = UnmarshalFresh(mq.payload, ZeroArguments).arguments.note
        /\ MsentOf(i)[1].velocity = UnmarshalFresh(mq.payload, ZeroArguments).arguments.velocity

\* C13, amended: when the override applies, each of channel, note and velocity
\* of the event sent is the value the payload gives for it, and the trigger's
\* default when the payload does not give it.
C13_PayloadFieldsOverDefaults ==
    \A i \in RequestTriggerIndexes :
      LET t == RequestTriggers[i]
          p == mq.payload
      IN  OverrideApplied(i) =>
            /\ Len(MsentOf(i)) = 1
            /\ MsentOf(i)[1].channel =
                 IF Given(p, "channel") THEN ValueOf(p, "channel") ELSE t.Channel
            /\ MsentOf(i)[1].note =
                 IF Given(p, "note") THEN ValueOf(p, "note") ELSE t.Note
            /\ MsentOf(i)[1].velocity =
                 IF Given(p, "velocity") THEN ValueOf(p, "velocity") ELSE t.Velocity

\* C13's case: the payload {note 66} was handled for a trigger with defaults
\* (1, 60, 100): the event sent has the note of the payload and the channel
\* and velocity of the trigger.
C13_Witness ==
    /\ mq.pc = "done"
    /\ mq.payload = JsonObject({<<"note", 66>>})
    /\ \E i \in RequestTriggerIndexes :
         /\ OverrideApplied(i)
         /\ MsentOf(i) = << [type |-> "NoteOn", trig |-> i, channel |-> 1,
                             note |-> 66, velocity |-> 100] >>

C15_DirectSend ==
    /\ ( mq.pc = "done" /\ mq.topic = SendTopic /\ ~mq.payload.empty )
       => /\ Len(MsentOf(0)) = 1
          /\ MsentOf(0)[1].channel =
               IF Given(mq.payload, "channel") THEN ValueOf(mq.payload, "channel") ELSE 0
          /\ MsentOf(0)[1].note =
               IF Given(mq.payload, "note") THEN ValueOf(mq.payload, "note") ELSE 0
          /\ MsentOf(0)[1].velocity =
               IF Given(mq.payload, "velocity") THEN ValueOf(mq.payload, "velocity") ELSE 0
          /\ \A i \in RequestTriggerIndexes :
               TopicMatches(RequestTriggers[i], mq.topic) => Len(MsentOf(i)) = 1
    /\ mq.payload.empty => MsentOf(0) = <<>>

\* C15's case: {channel 2, note 64, velocity 100} came on <base-topic>/send
\* with a trigger on that topic: the trigger's event and the direct event were
\* both sent.
C15_Witness ==
    /\ mq.pc = "done" /\ mq.topic = SendTopic
    /\ mq.payload = JsonObject({<<"channel", 2>>, <<"note", 64>>, <<"velocity", 100>>})
    /\ Len(msent) = 2
    /\ msent[1].trig = 1
    /\ msent[2] = [type |-> "NoteOn", trig |-> 0, channel |-> 2, note |-> 64,
                   velocity |-> 100]

\* C16: when MqttOnEvent has handled a message on <base-topic>/status/check to
\* the end, it has published nothing if the config send is disabled, and else
\* exactly one message, on <base-topic>/status, that holds the serialized
\* configuration of the router.
C16_StatusCheckPublishesConfig ==
    ( mq.pc = "done" /\ mq.topic = StatusCheckTopic )
    => IF MQTT.DisableConfigSend
       THEN pubs = <<>>
       ELSE /\ Len(pubs) = 1
            /\ pubs[1].topic = StatusTopic
            /\ pubs[1].payload # <<>>

\* ---------------------------------------------------- claims, Connect's tasks

C18_BadPatternNotFatal ==
    [][(Device # ValidDevice /\ alive /\ mqttTask # "connect") => alive']_vars

\* C19: a connect of the MQTT client that fails ends the process and is not
\* tried again: nothing of the router changes once the process has ended; and
\* with a pattern that compiles, nothing but the failed connect ends the
\* process: a round of a port task that fails leaves it running.
C19_OnlyMqttConnectIsFatal ==
    [][ /\ ( /\ alive /\ mqttTask = "connect" /\ mqttConn' # "connected"
             /\ <<mqttTask, alive>>' # <<mqttTask, alive>> )
           => ~alive' /\ mqttTask' = mqttTask
        /\ ~alive => UNCHANGED <<handleVars, alive, taskVars, envVars>>
        /\ (Device = ValidDevice /\ alive /\ ~alive') => mqttTask = "connect"
        /\ (outTask = "run" /\ outTask' = "sleep") => alive'
        /\ (inTask = "run" /\ inTask' = "sleep") => alive'
      ]_vars

\* C19's case: the process has ended in the connect of the MQTT client, after
\* rounds of both port tasks had failed and left them in their backoff.
C19_Witness ==
    /\ ~alive /\ mqttTask = "connect" /\ Device = ValidDevice
    /\ outTask = "sleep" /\ inTask = "sleep"

\* C20: Connect() starts every task the configuration asks for and returns;
\* and while a task is in its backoff, every other task can take its next
\* step, main can go on, and the listener callback, the HTTP server and the
\* MQTT client can hand an event, a request or a message to the router.
C20_TasksIndependent ==
    /\ (mainPc # "start")
         => /\ (Len(RequestTriggers) # 0) = (outTask # "none")
            /\ (~DisableListener) = (inTask # "none")
            /\ MQTT.Enabled = (mqttTask # "none")
    /\ (alive /\ (outTask = "sleep" \/ inTask = "sleep"))
         => /\ outTask = "run" => ENABLED OutTaskAttempt
            /\ inTask = "run" => ENABLED InTaskAttempt
            /\ inTask = "registered" => ENABLED InTaskStore
            /\ mqttTask = "new" => ENABLED MqttTaskNewClient
            /\ mqttTask = "connect" => ENABLED MqttTaskConnect
            /\ mainPc = "connected" => ENABLED MainServe
            /\ (mainPc = "serving" /\ Len(RequestTriggers) # 0) => ENABLED HttpRequest
            /\ listening => ENABLED ListenerCallback
            /\ mqttConn = "connected" => ENABLED MqttMessage

\* C20's case: the output-port task is in its backoff, and meanwhile the
\* listener was registered, the MQTT client connected and the server started.
C20_Witness ==
    /\ alive /\ outTask = "sleep" /\ MidiOut = "nil"
    /\ inTask = "done" /\ listening
    /\ mqttTask = "done" /\ mqttConn = "connected"
    /\ mainPc = "serving"

\* --------------------------------------- claims, Disconnect and shutdown

\* A step that is a call of Disconnect().
DisconnectStep == dc'.calls = dc.calls + 1

\* C21 (as stated): Disconnect() forgets the output port, stops the listener
\* and disconnects the MQTT client, does nothing for a handle that is not
\* set, and a second Disconnect() performs no further listener stop or MQTT
\* disconnect.
C21_SecondDisconnectDoesNothing ==
    [][DisconnectStep =>
         /\ MidiOut' = "nil"
         /\ ListenerStop = "nil" => (dc'.stops = dc.stops /\ listening' = listening)
         /\ MqttClient = "nil" =>
              (dc'.disconnects = dc.disconnects /\ mqttConn' = mqttConn)
         /\ dc.calls = 0 /\ ListenerStop # "nil" => ~listening'
         /\ dc.calls = 0 /\ MqttClient # "nil" => mqttConn' # "connected"
         /\ dc.calls >= 1 =>
              (dc'.stops = dc.stops /\ dc'.disconnects = dc.disconnects)]_vars

\* C21 (amended): every Disconnect() forgets the output port, calls the stop
\* function when ListenerStop is set and the client's Disconnect when
\* MqttClient is set, does nothing for a handle that is not set, and leaves
\* ListenerStop and MqttClient as they were: a second Disconnect() makes the
\* two calls again.
C21_DisconnectCallsPerSetHandle ==
    [][DisconnectStep =>
         /\ MidiOut' = "nil"
         /\ ListenerStop' = ListenerStop /\ MqttClient' = MqttClient
         /\ ListenerStop = "nil" => (dc'.stops = dc.stops /\ listening' = listening)
         /\ MqttClient = "nil" =>
              (dc'.disconnects = dc.disconnects /\ mqttConn' = mqttConn)
         /\ ListenerStop # "nil" => (dc'.stops = dc.stops + 1 /\ ~listening')
         /\ MqttClient # "nil" =>
              (dc'.disconnects = dc.disconnects + 1 /\ mqttConn' # "connected")]_vars

\* A second Disconnect() has called the stop function and the client's
\* Disconnect a second time.
C21_Witness ==
    dc.calls = 2 /\ dc.stops = 2 /\ dc.disconnects = 2 /\ MidiOut = "nil"

\* ------------------------------------------- claims, the unbound output port

\* The running Handler is at a trigger that matches its request.
HandlerAtMatch ==
    /\ hd.pc = "loop" /\ hd.i <= Len(RequestTriggers)
    /\ UriMatches(RequestTriggers[hd.i], hd.RawPath)

\* The running MqttOnEvent is at a trigger that matches its message.
MqttOnEventAtMatch ==
    /\ mq.pc = "loop" /\ mq.i <= Len(RequestTriggers)
    /\ TopicMatches(RequestTriggers[mq.i], mq.topic)

\* C22: a request or a message that matches a RequestTrigger while no output
\* port is bound is answered with a delivery failure: the Handler writes the
\* status 500, MqttOnEvent logs an error and returns, the process goes on and
\* no MIDI event is sent.
C22_UnboundPortIsDeliveryFailure ==
    [][/\ (HandlerAtMatch /\ MidiOut = "nil" /\ hd' # hd) =>
            (hd'.pc = "failed" /\ resp'.status = 500 /\ sent' = sent /\ alive')
       /\ (MqttOnEventAtMatch /\ MidiOut = "nil" /\ mq' # mq) =>
            (mq'.pc = "returned" /\ mq'.err # "none" /\ msent' = msent /\ alive')
      ]_vars

\* C23: at shutdown the server has stopped taking requests in and every
\* handler has finished before Disconnect() releases the router's resources:
\* once Disconnect() has run, no Handler is running and none can start.
C23_HandlersFinishBeforeDisconnect ==
    dc.calls > 0 => (srv = "closed" /\ hd.pc # "loop")

\* The MIDI messages Handler has sent for trigger i.
SentOf(i) == SelectSeq(sent, LAMBDA m : m.trig = i)

\* Trigger i is one the request of the Handler is for (part_001:657), one the
\* message of MqttOnEvent is for (part_001:743-744).
ForRequest(i) ==
    /\ RequestTriggers[i].URI # EmptyStr
    /\ RequestTriggers[i].URI = hd.RawPath
ForMessage(i) ==
    \/ /\ RequestTriggers[i].MqttTopic # EmptyStr
       /\ RequestTriggers[i].MqttTopic = mq.topic
    \/ /\ RequestTriggers[i].MqttSubTopic # EmptyStr
       /\ mq.topic = BaseTopic \o <<"/">> \o RequestTriggers[i].MqttSubTopic

C25_FailuresStayInSendRequest ==
    /\ sr.pc # "idle" => listening
    /\ (alive /\ sr.pc = "loop") => ENABLED (SendRequestIter \/ SendRequestReturn)
    /\ (alive /\ sr.pc = "done") => ENABLED ListenerCallback

\* sendRequest has returned after a trigger whose HTTP action failed and a
\* publish that was made with the client not connected.
C25_Witness ==
    /\ alive /\ listening /\ sr.pc = "done"
    /\ \E i \in TriggerIndexes : Abandoned(i)
    /\ \E k \in 1..Len(log) : log[k].kind = "publish" /\ ~log[k].ok

\* C26: no step of the router changes its configuration, the NoteTriggers
\* and RequestTriggers among it: the default method of a request is not
\* stored in the trigger, and of the router's fields only MidiOut,
\* ListenerStop and MqttClient change.
C26_TriggersUnchanged ==
    [][/\ NoteTriggers' = NoteTriggers /\ RequestTriggers' = RequestTriggers
       /\ Device' = Device /\ MQTT' = MQTT
       /\ DisableListener' = DisableListener /\ LogLevel' = LogLevel]_vars

\* sendRequest has made a request with the default method for a trigger
\* whose stored method is still empty.
C26_Witness ==
    \E k \in 1..Len(log) :
        /\ log[k].kind = "http" /\ log[k].method = "GET"
        /\ NoteTriggers[log[k].trig].Method = ""

\* C27: once the MQTT client of a router that sends its configuration has
\* connected, the configuration has been published to <base-topic>/status,
\* with no message on <base-topic>/status/check handled.
C27_StatusPublishedAtStartup ==
    (mqttTask = "done" /\ ~MQTT.DisableConfigSend /\ mq.pc = "idle") =>
        \E k \in DOMAIN pubs : pubs[k].topic = StatusTopic

\* What sendRequest did for trigger i, in order.
LogOf(i) == SelectSeq(log, LAMBDA e : e.trig = i)

\* C28: for every NoteTrigger that matched the event, whatever the outcome
\* of its action, sendRequest slept for delay_before first and for
\* delay_after last.
C28_DelaysBracketEveryAction ==
    \A i \in TriggerIndexes :
        Entered(i) =>
            LET l == LogOf(i)
            IN  /\ Len(l) >= 2
                /\ l[1].kind = "sleep" /\ l[1].method = "before"
                /\ l[1].dur = NoteTriggers[i].DelayBefore
                /\ l[Len(l)].kind = "sleep" /\ l[Len(l)].method = "after"
                /\ l[Len(l)].dur = NoteTriggers[i].DelayAfter

\* ------------------------------------------------ claims, matching handlers

\* C29: when Handler has run to its end for a request, every RequestTrigger
\* whose URI is the path of the request has had its MIDI event sent, once and
\* in declaration order, and the response has one status line.
C29_EveryPathMatchSendsOneResponse ==
    hd.pc = "done" =>
        /\ \A i \in RequestTriggerIndexes :
             (RequestTriggers[i].URI # EmptyStr /\ RequestTriggers[i].URI = hd.Path)
                 => Len(SentOf(i)) = 1
        /\ \A k, l \in DOMAIN sent : k < l => sent[k].trig < sent[l].trig
        /\ resp.status # 0

\* Trigger i has neither an MQTT topic nor a sub-topic.
NoMqttTopic(i) ==
    /\ RequestTriggers[i].MqttTopic = EmptyStr
    /\ RequestTriggers[i].MqttSubTopic = EmptyStr

\* C30: MqttOnEvent sends an event for trigger i only if the trigger's
\* non-empty topic is the topic of the message or the topic is
\* <base-topic>/S for its non-empty sub-topic S, and it has sent one for
\* every such trigger it has gone past; a trigger with no topic and no
\* sub-topic gets none; and with the override disallowed or an empty payload
\* the event has the trigger's channel, note and velocity.
C30_MqttMatchAndDefaults ==
    \A i \in RequestTriggerIndexes :
        /\ Len(MsentOf(i)) = IF mq.i > i /\ ForMessage(i) THEN 1 ELSE 0
        /\ NoMqttTopic(i) => Len(MsentOf(i)) = 0
        /\ (RequestTriggers[i].DisallowPayload \/ mq.payload.empty) =>
             \A k \in DOMAIN MsentOf(i) :
                 /\ MsentOf(i)[k].channel = RequestTriggers[i].Channel
                 /\ MsentOf(i)[k].note = RequestTriggers[i].Note
                 /\ MsentOf(i)[k].velocity = RequestTriggers[i].Velocity

\* A message with a payload on the absolute topic of a trigger that
\* disallows the override has been handled to the end: the event was sent,
\* and the trigger before it, which only has a uri, got none.
C30_Witness ==
    /\ mq.pc = "done" /\ ~mq.payload.empty /\ mq.payload.json
    /\ Len(RequestTriggers) = 2
    /\ NoMqttTopic(1) /\ RequestTriggers[1].URI # EmptyStr
    /\ RequestTriggers[2].DisallowPayload
    /\ Len(MsentOf(2)) = 1 /\ Len(msent) = 1

\* ----------------------------------------------- claims, the MQTT session

C32_ReleasedAfterDisconnect ==
    dc.calls > 0 =>
        /\ MidiOut = "nil"
        /\ ~listening
        /\ mqttConn # "connected"

\* The entries a step adds to what sendRequest has done: all of them when the
\* step is the callback of the listener, the appended ones otherwise.
NewEntries ==
    IF sr.pc \in {"idle", "done"} /\ sr'.pc = "loop"
    THEN 1..Len(log')
    ELSE (Len(log) + 1)..Len(log')

C34_AtMostOnePortOpened ==
    /\ Cardinality(outOpened) <= 1
    /\ MidiOut # "nil" => (MidiOut \in MatchingPorts /\ MidiOut \in outOpened)

\* ------------------------------------------------- claims, the direct send

\* C35: MqttOnEvent sends directly only for a message whose topic is
\* <base-topic>/send: on any other topic the events sent are those of the
\* matching RequestTriggers; and a message on <base-topic>/status/check that
\* MqttOnEvent handles to its end is followed by the publish of the status.
C35_DirectSendOnlyOnSendTopic ==
    /\ Len(MsentOf(0)) > 0 => mq.topic = SendTopic
    /\ (mq.pc = "done" /\ mq.topic = StatusCheckTopic
          /\ ~MQTT.DisableConfigSend) =>
         \E k \in DOMAIN pubs : pubs[k].topic = StatusTopic

====
